---- MODULE Spec2Model ----
(***************************************************************************)
(* XEX-mode encrypted non-volatile storage (xex.c): the GF(2^128) doubler, *)
(* the XEX tweakable cipher, the key state and the byte-granular           *)
(* read / read-modify-write adapter over a 16-byte block store.            *)
(***************************************************************************)
EXTENDS Integers, Sequences, FiniteSets, TLC

\* ------------------------------------------------------------------------
\* Bounds of the model
\* ------------------------------------------------------------------------

\* Width of an address in bits.  The code uses uint32_t; the model keeps the
\* modular arithmetic at a narrower width so the whole address space can be
\* walked.
AddrBits == 6
\* Size in 16-byte blocks of the smaller of the two storage devices.
NvBlocks == 3
\* Largest seq handed to the XEX cipher by the vector harness.
MaxSeq == 3
\* How many encrypted writes, key changes and raw-store faults one run holds,
\* and how many writes and key changes together.  No call is begun once the
\* faults are used up.
MaxWrites == 2
MaxKeyOps == 2
MaxFaults == 1
MaxOps == 3
\* Doublings applied in a row to one value by the doubler runs.
MaxDoublings == 128

AddrSpace == 2 ^ AddrBits
NvBytes == 16 * NvBlocks
\* How many of its latest raw operations the log of a call holds: a read and
\* a write of every block of the address space, and one more of each.
MaxLog == 2 * (AddrSpace \div 16) + 2

\* ------------------------------------------------------------------------
\* Bytes and 16-byte arrays (C arrays are indexed from 0)
\* ------------------------------------------------------------------------

Byte == 0 .. 255
Idx16 == 0 .. 15

RECURSIVE BitXor(_, _, _)
BitXor(a, b, bits) ==
    IF bits = 0 THEN 0
    ELSE ((a + b) % 2) + 2 * BitXor(a \div 2, b \div 2, bits - 1)

RECURSIVE BitAnd(_, _, _)
BitAnd(a, b, bits) ==
    IF bits = 0 THEN 0
    ELSE ((a % 2) * (b % 2)) + 2 * BitAnd(a \div 2, b \div 2, bits - 1)

\* a ^ b on uint8_t, tabulated once.
XorTable == [a \in Byte |-> [b \in Byte |-> BitXor(a, b, 8)]]
Xor8(a, b) == XorTable[a][b]
\* a & b on uint8_t.
And8(a, b) == BitAnd(a, b, 8)

Zero16 == [i \in Idx16 |-> 0]

\* ------------------------------------------------------------------------
\* Consumed helpers and the block cipher primitive (aes.c, endian.c are not
\* part of the sources at hand; modelled from their interface)
\* ------------------------------------------------------------------------

\* xor16Bytes(r, op1): r ^= op1 over 16 bytes.
xor16Bytes(r, op1) == [i \in Idx16 |-> Xor8(r[i], op1[i])]

\* writeU32LittleEndian(out, in): the low four bytes of n hold the value,
\* least significant byte first; the other bytes of n are left alone.
writeU32LittleEndian(out, in) ==
    [i \in Idx16 |->
        IF i = 0 THEN in % 256
        ELSE IF i = 1 THEN (in \div 256) % 256
        ELSE IF i = 2 THEN (in \div 65536) % 256
        ELSE IF i = 3 THEN (in \div 16777216) % 256
        ELSE out[i]]

\* aesExpandKey: a key schedule, here one round key derived from the key.
aesExpandKey(key) == [i \in Idx16 |-> (key[i] + 16 * i + 1) % 256]

\* aesEncrypt: a keyed permutation of 16-byte blocks.  Each output byte is a
\* byte of the rotated input, masked with the round key, multiplied by 3 and
\* offset (mod 256): invertible, and not linear over XOR.
aesEncrypt(in, expanded_key) ==
    [i \in Idx16 |->
        (3 * Xor8(in[(i + 1) % 16], expanded_key[i])
           + expanded_key[(i + 5) % 16]) % 256]

\* aesDecrypt: the inverse permutation (171 = 3^-1 mod 256).
aesDecrypt(in, expanded_key) ==
    [j \in Idx16 |->
        LET i == (j + 15) % 16
        IN  Xor8((171 * ((in[i] + 256 - expanded_key[(i + 5) % 16]) % 256)) % 256,
                 expanded_key[i])]

\* ------------------------------------------------------------------------
\* GF doubler
\* ------------------------------------------------------------------------

\* Mutant: the bit shifted out of a byte is not carried into the next one.
DoubleByte_m(b, last_bit) ==
    << (b * 2) % 256, And8(b, 128) \div 128 >>

\* The body of the for loop of doubleInGF for byte i, given the bit carried
\* out of byte i - 1: <<new op1[i], new last_bit>>.
DoubleByte(b, last_bit) ==
    LET temp == And8(b, 128)
        shifted == (b * 2) % 256
    IN  << shifted + last_bit - And8(shifted, last_bit), temp \div 128 >>

RECURSIVE DoubleLoop(_, _, _)
\* Runs the for loop from byte i on; returns <<op1, last_bit>> after byte 15.
DoubleLoop(op1, i, last_bit) ==
    IF i = 16 THEN << op1, last_bit >>
    ELSE LET d == DoubleByte(op1[i], last_bit)
         IN  DoubleLoop([op1 EXCEPT ![i] = d[1]], i + 1, d[2])

\* Mutant: byte 0 is reduced whether or not a bit was shifted off the top.
doubleInGF_m(op1) ==
    LET looped == DoubleLoop(op1, 0, 0)
        shifted == looped[1]
    IN  [shifted EXCEPT ![0] = Xor8(shifted[0], 135)]

doubleInGF(op1) ==
    LET looped == DoubleLoop(op1, 0, 0)
        shifted == looped[1]
        \* last_bit = (uint8_t)(-(int)last_bit): 0 or 0xff
        mask == (256 - looped[2]) % 256
    IN  [shifted EXCEPT ![0] = Xor8(shifted[0], And8(135, mask))]

RECURSIVE DoubleTimes(_, _)
\* for (i = 0; i < seq; i++) doubleInGF(delta);
DoubleTimes(delta, seq) ==
    IF seq = 0 THEN delta ELSE DoubleTimes(doubleInGF(delta), seq - 1)

\* ------------------------------------------------------------------------
\* XEX cipher
\* ------------------------------------------------------------------------

\* Mutant: the is_decrypt branch is lost, the primitive always encrypts.
xexEnDecrypt_m(in, n, seq, tweak_key, encrypt_key, is_decrypt) ==
    LET delta == DoubleTimes(aesEncrypt(n, aesExpandKey(tweak_key)), seq)
        buffer == xor16Bytes(in, delta)
        expanded_key == aesExpandKey(encrypt_key)
    IN  xor16Bytes(aesEncrypt(buffer, expanded_key), delta)

\* Mutant: the two keys change places.
xexEnDecrypt_k(in, n, seq, tweak_key, encrypt_key, is_decrypt) ==
    LET delta == DoubleTimes(aesEncrypt(n, aesExpandKey(encrypt_key)), seq)
        buffer == xor16Bytes(in, delta)
        expanded_key == aesExpandKey(tweak_key)
        out == IF is_decrypt # 0
               THEN aesDecrypt(buffer, expanded_key)
               ELSE aesEncrypt(buffer, expanded_key)
    IN  xor16Bytes(out, delta)

xexEnDecrypt(in, n, seq, tweak_key, encrypt_key, is_decrypt) ==
    LET delta == DoubleTimes(aesEncrypt(n, aesExpandKey(tweak_key)), seq)
        buffer == xor16Bytes(in, delta)
        expanded_key == aesExpandKey(encrypt_key)
        out == IF is_decrypt # 0
               THEN aesDecrypt(buffer, expanded_key)
               ELSE aesEncrypt(buffer, expanded_key)
    IN  xor16Bytes(out, delta)

xexEncrypt(in, n, seq, tweak_key, encrypt_key) ==
    xexEnDecrypt(in, n, seq, tweak_key, encrypt_key, 0)

xexDecrypt(in, n, seq, tweak_key, encrypt_key) ==
    xexEnDecrypt(in, n, seq, tweak_key, encrypt_key, 1)

\* ------------------------------------------------------------------------
\* Key state manager (pure parts)
\* ------------------------------------------------------------------------

Idx32 == 0 .. 31
ZeroBlob == [i \in Idx32 |-> 0]

\* Mutant: the second loop copies from in[0..15] again.
setEncryptionKey_m(in) ==
    [encrypt_key |-> [i \in Idx16 |-> in[i]],
     tweak_key   |-> [i \in Idx16 |-> in[i]]]

\* setEncryptionKey: the two loops, as the pair of arrays they leave.
setEncryptionKey(in) ==
    [encrypt_key |-> [i \in Idx16 |-> in[i]],
     tweak_key   |-> [i \in Idx16 |-> in[i + 16]]]

\* Mutant: the halves are written to out the wrong way round.
getEncryptionKey_m(encrypt_key, tweak_key) ==
    [i \in Idx32 |-> IF i < 16 THEN tweak_key[i] ELSE encrypt_key[i - 16]]

\* getEncryptionKey: the 32 bytes written to out.
getEncryptionKey(encrypt_key, tweak_key) ==
    [i \in Idx32 |-> IF i < 16 THEN encrypt_key[i] ELSE tweak_key[i - 16]]

\* a | b on uint8_t.
Or8(a, b) == a + b - And8(a, b)

RECURSIVE NonZeroLoop(_, _, _, _)
NonZeroLoop(r, i, encrypt_key, tweak_key) ==
    IF i = 16 THEN r
    ELSE NonZeroLoop(Or8(Or8(r, encrypt_key[i]), tweak_key[i]), i + 1,
                     encrypt_key, tweak_key)

\* Mutant: only the encrypt key is looked at.
isEncryptionKeyNonZero_m(encrypt_key, tweak_key) ==
    NonZeroLoop(0, 0, encrypt_key, encrypt_key)

isEncryptionKeyNonZero(encrypt_key, tweak_key) ==
    NonZeroLoop(0, 0, encrypt_key, tweak_key)

\* Mutant: the loops stop one byte short of the end of a key.
FillKey_s(v) == [i \in Idx16 |-> IF i < 15 THEN v ELSE 255 - v]

\* Mutant: the first loop already writes 0x00, the 0xff pass is lost.
FillKey_z(v) == [i \in Idx16 |-> 0]

\* Mutant: the second loop repeats the first one's 0xff.
FillKey_m(v) == [i \in Idx16 |-> 255]

\* One loop of clearEncryptionKey: every byte of a key array set to v.
FillKey(v) == [i \in Idx16 |-> v]

\* ------------------------------------------------------------------------
\* Block translation of the adapter (pure parts)
\* ------------------------------------------------------------------------

NV_NO_ERROR == "NV_NO_ERROR"
NV_INVALID_ADDRESS == "NV_INVALID_ADDRESS"
NV_IO_ERROR == "NV_IO_ERROR"

\* address & 0xfffffff0
BlockStart(address) == address - (address % 16)
\* Mutant: the offset inside the first block is dropped.
BlockOffset_m(address) == 0
\* (uint8_t)(address & 0x0000000f)
BlockOffset(address) == address % 16
\* Mutant: the last byte is taken to be address + length.
BlockEnd_m(address, length) ==
    BlockStart((address + length) % AddrSpace)
\* (address + length - 1) & 0xfffffff0, in unsigned arithmetic of the
\* address width
BlockEnd(address, length) ==
    BlockStart((address + length + AddrSpace - 1) % AddrSpace)
\* Mutant: the loop steps over every second block.
NextBlock_m(block_start) == (block_start + 32) % AddrSpace
\* block_start += 16, in unsigned arithmetic of the address width
NextBlock(block_start) == (block_start + 16) % AddrSpace
\* Mutant: block_offset is not reset at the end of an iteration.
ResetOffset_m(block_offset) == block_offset
\* block_offset = 0 at the end of an iteration
ResetOffset(block_offset) == 0
\* if (r != NV_NO_ERROR) return r; after the raw read
ReadFailed(r) == r # NV_NO_ERROR
\* Mutant: the status of the raw write is not looked at.
WriteFailed_m(r) == FALSE
\* if (r != NV_NO_ERROR) return r; after the raw write
WriteFailed(r) == r # NV_NO_ERROR

RECURSIVE WriteCopyLoop(_, _, _, _, _)
\* while (length && block_offset < 16)
\*     { plaintext[block_offset++] = *data++; length--; }
WriteCopyLoop(plaintext, block_offset, data, pos, length) ==
    IF length # 0 /\ block_offset < 16
    THEN WriteCopyLoop([plaintext EXCEPT ![block_offset] = data[pos]],
                       block_offset + 1, data, pos + 1, length - 1)
    ELSE [plaintext |-> plaintext, block_offset |-> block_offset,
          pos |-> pos, length |-> length]

RECURSIVE ReadCopyLoop(_, _, _, _, _)
\* while (length && block_offset < 16)
\*     { *data++ = plaintext[block_offset++]; length--; }
ReadCopyLoop(data, block_offset, plaintext, pos, length) ==
    IF length # 0 /\ block_offset < 16
    THEN ReadCopyLoop([data EXCEPT ![pos] = plaintext[block_offset]],
                      block_offset + 1, plaintext, pos + 1, length - 1)
    ELSE [data |-> data, block_offset |-> block_offset,
          pos |-> pos, length |-> length]

\* The 16 bytes of the store at block b.
RawBlock(mem, b) == [i \in Idx16 |-> mem[b + i]]
\* The store with the 16 bytes at block b replaced.
RawStore(mem, b, block) ==
    [x \in DOMAIN mem |-> IF x >= b /\ x < b + 16 THEN block[x - b] ELSE mem[x]]

\* Mutant: n never receives the block address.
BlockTweak_m(tweak, b) == tweak
\* writeU32LittleEndian(n, block_start) at the head of an iteration.
BlockTweak(tweak, b) == writeU32LittleEndian(tweak, b)

\* The tweak value of block b: n is zeroed once, then its low four bytes are
\* overwritten with the block address on every iteration.
TweakOf(b) == writeU32LittleEndian(Zero16, b)

\* What the adapter's XEX calls make of a block under the installed key.
DecryptBlock(block, b, tweak_key, encrypt_key) ==
    xexDecrypt(block, TweakOf(b), 1, tweak_key, encrypt_key)
EncryptBlock(block, b, tweak_key, encrypt_key) ==
    xexEncrypt(block, TweakOf(b), 1, tweak_key, encrypt_key)

\* ------------------------------------------------------------------------
\* State
\* ------------------------------------------------------------------------

VARIABLES
    nv_storage_encrypt_key, \* static uint8_t nv_storage_encrypt_key[16]
    nv_storage_tweak_key,   \* static uint8_t nv_storage_tweak_key[16]
    nv_size,                \* bytes the raw store holds
    nv_mem,                 \* raw store contents (ciphertext), by byte address
    pc,                     \* position of the thread of control
    call,                   \* the call in progress, or the last one completed
    ret,                    \* status the last completed call returned
    out_data,               \* bytes the call has written to its out buffer
                            \* (for is_key_nonzero, the byte it returned)
    block_start, block_end, block_offset, length, pos,
    ciphertext, plaintext, n,     \* locals of the adapter call in progress
    raw_log,                \* raw operations the call issued, with statuses
    pre_nv,                 \* raw store contents when the call began
    what_storage_should_be, \* the harness's plaintext mirror (-1: not written)
    mirror_key,             \* key blob the mirrored writes were made under
    mirror_ok,              \* the mirrored writes all completed undisturbed
    strayed,                \* another key was installed since the last write
    installed,              \* key blob installed through the interface
    installed_by,           \* the call that installed it
    writes, key_ops, faults,      \* counters bounding a run
    kat                     \* the XEX vector harness

keyVars == << nv_storage_encrypt_key, nv_storage_tweak_key >>
storeVars == << nv_size, nv_mem >>
localVars == << block_start, block_end, block_offset, length, pos,
                ciphertext, plaintext, n >>
mirrorVars == << what_storage_should_be, mirror_key, mirror_ok >>
ghostKeyVars == << strayed, installed, installed_by >>
vars == << nv_storage_encrypt_key, nv_storage_tweak_key, nv_size, nv_mem,
           pc, call, ret, out_data, block_start, block_end, block_offset,
           length, pos, ciphertext, plaintext, n, raw_log, pre_nv,
           what_storage_should_be, mirror_key, mirror_ok, strayed, installed,
           installed_by, writes, key_ops, faults, kat >>

\* ------------------------------------------------------------------------
\* Inputs
\* ------------------------------------------------------------------------

\* memset(one_key, 0, 32); one_key[16] = 1;
OneKeyTweak == [i \in Idx32 |-> IF i = 16 THEN 1 ELSE 0]
\* memset(one_key, 0, 32); one_key[0] = 1;
OneKeyEncrypt == [i \in Idx32 |-> IF i = 0 THEN 1 ELSE 0]
TestKeys == { OneKeyTweak, OneKeyEncrypt }

\* Addresses: block-aligned and not, at the start, in the middle, next to the
\* end of the smaller store and next to the end of the address space.
TestAddresses == { 0, 5, 16, AddrSpace - 8 }
\* Lengths: none, inside a block, one block, and up to the last block of the
\* smaller store.
TestLengths == { 0, 3, 16, NvBytes - 4 }
\* The caller's bytes, buffer[j] = (uint8_t)rand(): a fixed pseudo-random
\* stream, so the bytes of a write depend on how many writes came before.
TestData(seed, len) == [j \in 0 .. len - 1 |-> (17 + 147 * seed + 7 * j) % 256]

\* Contents of the raw store before the first call.
InitialNv(size) == [x \in 0 .. size - 1 |-> (5 * x + 1) % 256]

NoCall == [op |-> "none"]
NoKat == [stage |-> "off"]
NoKey == << >>

\* ------------------------------------------------------------------------
\* The raw store (hwinterface; modelled from its interface)
\* ------------------------------------------------------------------------

\* Statuses nonVolatileRead / nonVolatileWrite may return for an access of
\* len bytes at a: an access past the end of the device is refused, any
\* other one succeeds or, on a device fault, fails.
RawStatuses(a, len) ==
    IF a + len > nv_size THEN { NV_INVALID_ADDRESS }
    ELSE IF faults < MaxFaults THEN { NV_NO_ERROR, NV_IO_ERROR }
    ELSE { NV_NO_ERROR }

Logged(log, entry) ==
    IF Len(log) < MaxLog THEN Append(log, entry) ELSE Append(Tail(log), entry)

\* ------------------------------------------------------------------------
\* Initial state
\* ------------------------------------------------------------------------

InitCommon ==
    /\ nv_storage_encrypt_key = Zero16
    /\ nv_storage_tweak_key = Zero16
    /\ nv_size \in { NvBytes, AddrSpace }
    /\ nv_mem = InitialNv(nv_size)
    /\ pc = "idle"
    /\ call = NoCall
    /\ ret = "none"
    /\ out_data = << >>
    /\ block_start = 0 /\ block_end = 0 /\ block_offset = 0
    /\ length = 0 /\ pos = 0
    /\ ciphertext = Zero16 /\ plaintext = Zero16 /\ n = Zero16
    /\ raw_log = << >>
    /\ pre_nv = nv_mem
    /\ what_storage_should_be = [x \in 0 .. nv_size - 1 |-> -1]
    /\ mirror_key = NoKey
    /\ mirror_ok = TRUE
    /\ strayed = FALSE
    /\ installed = ZeroBlob
    /\ installed_by = "init"
    /\ writes = 0 /\ key_ops = 0 /\ faults = 0

Init == InitCommon /\ kat = NoKat

\* ------------------------------------------------------------------------
\* Key state manager
\* ------------------------------------------------------------------------

BeginCall(c) ==
    /\ pc = "idle"
    /\ faults < MaxFaults
    /\ call' = c
    /\ raw_log' = << >>
    /\ pre_nv' = nv_mem

SetKey(in) ==
    /\ key_ops < MaxKeyOps
    /\ writes + key_ops < MaxOps
    /\ BeginCall([op |-> "set_key", in |-> in])
    /\ nv_storage_encrypt_key' = setEncryptionKey(in).encrypt_key
    /\ nv_storage_tweak_key' = setEncryptionKey(in).tweak_key
    /\ ret' = "void"
    /\ out_data' = << >>
    /\ installed' = in
    /\ installed_by' = "set_key"
    /\ strayed' = (strayed \/ (mirror_key # NoKey /\ in # mirror_key))
    /\ key_ops' = key_ops + 1
    /\ UNCHANGED << storeVars, pc, localVars, mirrorVars, writes, faults, kat >>

\* Mutant: get_key wipes the key arrays once it has copied them out.
GetKey_m ==
    /\ BeginCall([op |-> "get_key"])
    /\ out_data' = getEncryptionKey(nv_storage_encrypt_key, nv_storage_tweak_key)
    /\ ret' = "void"
    /\ nv_storage_encrypt_key' = Zero16
    /\ nv_storage_tweak_key' = Zero16
    /\ UNCHANGED << storeVars, pc, localVars, mirrorVars, ghostKeyVars,
                    writes, key_ops, faults, kat >>

GetKey ==
    /\ BeginCall([op |-> "get_key"])
    /\ out_data' = getEncryptionKey(nv_storage_encrypt_key, nv_storage_tweak_key)
    /\ ret' = "void"
    /\ UNCHANGED << keyVars, storeVars, pc, localVars, mirrorVars, ghostKeyVars,
                    writes, key_ops, faults, kat >>

IsKeyNonZero ==
    /\ BeginCall([op |-> "is_key_nonzero"])
    /\ ret' = "value"
    /\ out_data' = << isEncryptionKeyNonZero(nv_storage_encrypt_key,
                                              nv_storage_tweak_key) >>
    /\ UNCHANGED << keyVars, storeVars, pc, localVars, mirrorVars, ghostKeyVars,
                    writes, key_ops, faults, kat >>

\* clearEncryptionKey, first loop: both arrays filled with 0xff.
ClearKeyFirstLoop ==
    /\ key_ops < MaxKeyOps
    /\ writes + key_ops < MaxOps
    /\ BeginCall([op |-> "clear_key", after |-> installed_by])
    /\ pc' = "clear_second_loop"
    /\ nv_storage_tweak_key' = FillKey(255)
    /\ nv_storage_encrypt_key' = FillKey(255)
    /\ ret' = "pending"
    /\ out_data' = << >>
    /\ key_ops' = key_ops + 1
    /\ UNCHANGED << storeVars, localVars, mirrorVars, ghostKeyVars,
                    writes, faults, kat >>

\* clearEncryptionKey, second loop: both arrays filled with 0.
ClearKeySecondLoop ==
    /\ pc = "clear_second_loop"
    /\ pc' = "idle"
    /\ nv_storage_tweak_key' = FillKey(0)
    /\ nv_storage_encrypt_key' = FillKey(0)
    /\ ret' = "void"
    /\ installed' = ZeroBlob
    /\ installed_by' = "clear_key"
    /\ strayed' = (strayed \/ (mirror_key # NoKey /\ ZeroBlob # mirror_key))
    /\ UNCHANGED << storeVars, call, out_data, localVars, raw_log, pre_nv,
                    mirrorVars, writes, key_ops, faults, kat >>

\* ------------------------------------------------------------------------
\* Encrypted storage adapter
\* ------------------------------------------------------------------------

\* The call returns status: its locals go out of scope.
Return(status) ==
    /\ pc' = "idle"
    /\ ret' = status
    /\ block_start' = 0 /\ block_end' = 0 /\ block_offset' = 0
    /\ length' = 0 /\ pos' = 0
    /\ ciphertext' = Zero16 /\ plaintext' = Zero16 /\ n' = Zero16

\* The harness keeps reads and writes inside the store and mirrors a write
\* (memcpy into what_storage_should_be) before issuing it.
InBounds(a, len) == a + len <= nv_size

\* encryptedNonVolatileWrite, up to the block loop.
EncryptedWriteCall(seed, a, len) ==
    /\ writes < MaxWrites
    /\ writes + key_ops < MaxOps
    /\ BeginCall([op |-> "write", address |-> a, length |-> len,
                  data |-> TestData(seed, len)])
    /\ pc' = "write_loop"
    /\ block_start' = BlockStart(a)
    /\ block_offset' = BlockOffset(a)
    /\ block_end' = BlockEnd(a, len)
    /\ n' = Zero16
    /\ length' = len
    /\ pos' = 0
    /\ ret' = "pending"
    /\ out_data' = << >>
    /\ IF InBounds(a, len) /\ mirror_key \in { NoKey, installed }
       THEN /\ what_storage_should_be' =
                  [x \in DOMAIN what_storage_should_be |->
                      IF x >= a /\ x < a + len
                      THEN TestData(seed, len)[x - a]
                      ELSE what_storage_should_be[x]]
            /\ mirror_key' = installed
            /\ mirror_ok' = mirror_ok
       ELSE /\ mirror_ok' = FALSE
            /\ UNCHANGED << what_storage_should_be, mirror_key >>
    /\ strayed' = FALSE
    /\ writes' = writes + 1
    /\ UNCHANGED << keyVars, storeVars, ciphertext, plaintext, installed,
                    installed_by, key_ops, faults, kat >>

\* for (; block_start <= block_end; ...) fails: return NV_NO_ERROR.
WriteLoopExit ==
    /\ pc = "write_loop"
    /\ ~(block_start <= block_end)
    /\ Return(NV_NO_ERROR)
    /\ UNCHANGED << keyVars, storeVars, call, out_data, raw_log, pre_nv,
                    mirrorVars, ghostKeyVars, writes, key_ops, faults, kat >>

\* One iteration of the write loop up to the raw write: raw read, decrypt,
\* overlay of the caller's bytes, encrypt.
WriteReadBlock ==
    /\ pc = "write_loop"
    /\ block_start <= block_end
    /\ \E r \in RawStatuses(block_start, 16) :
        /\ raw_log' = Logged(raw_log, [kind |-> "read", address |-> block_start,
                                       status |-> r])
        /\ faults' = IF r = NV_IO_ERROR THEN faults + 1 ELSE faults
        /\ mirror_ok' = (mirror_ok /\ r # NV_IO_ERROR)
        /\ IF ReadFailed(r)
           THEN Return(r)
           ELSE LET tweak == BlockTweak(n, block_start)
                    decrypted == xexDecrypt(RawBlock(nv_mem, block_start), tweak, 1,
                                            nv_storage_tweak_key,
                                            nv_storage_encrypt_key)
                    copied == WriteCopyLoop(decrypted, block_offset, call.data,
                                            pos, length)
                IN  /\ n' = tweak
                    /\ plaintext' = copied.plaintext
                    /\ length' = copied.length
                    /\ pos' = copied.pos
                    /\ block_offset' = ResetOffset(copied.block_offset)
                    /\ ciphertext' = xexEncrypt(copied.plaintext, tweak, 1,
                                                nv_storage_tweak_key,
                                                nv_storage_encrypt_key)
                    /\ pc' = "write_raw"
                    /\ UNCHANGED << ret, block_start, block_end >>
    /\ UNCHANGED << keyVars, storeVars, call, out_data, pre_nv,
                    what_storage_should_be, mirror_key, ghostKeyVars,
                    writes, key_ops, kat >>

\* The rest of the iteration: raw write of the re-encrypted block, then
\* block_start += 16.
WriteWriteBlock ==
    /\ pc = "write_raw"
    /\ \E r \in RawStatuses(block_start, 16) :
        /\ raw_log' = Logged(raw_log, [kind |-> "write", address |-> block_start,
                                       status |-> r])
        /\ faults' = IF r = NV_IO_ERROR THEN faults + 1 ELSE faults
        /\ mirror_ok' = (mirror_ok /\ r # NV_IO_ERROR)
        /\ nv_mem' = IF r = NV_NO_ERROR
                     THEN RawStore(nv_mem, block_start, ciphertext)
                     ELSE nv_mem
        /\ IF WriteFailed(r)
           THEN Return(r)
           ELSE /\ block_start' = NextBlock(block_start)
                /\ pc' = "write_loop"
                /\ UNCHANGED << ret, block_end, block_offset, length, pos,
                                ciphertext, plaintext, n >>
    /\ UNCHANGED << keyVars, nv_size, call, out_data, pre_nv,
                    what_storage_should_be, mirror_key, ghostKeyVars,
                    writes, key_ops, kat >>

\* encryptedNonVolatileRead, up to the block loop.
EncryptedReadCall(a, len) ==
    /\ BeginCall([op |-> "read", address |-> a, length |-> len])
    /\ pc' = "read_loop"
    /\ block_start' = BlockStart(a)
    /\ block_offset' = BlockOffset(a)
    /\ block_end' = BlockEnd(a, len)
    /\ n' = Zero16
    /\ length' = len
    /\ pos' = 0
    /\ ret' = "pending"
    /\ out_data' = [j \in 0 .. len - 1 |-> -1]
    /\ UNCHANGED << keyVars, storeVars, ciphertext, plaintext, mirrorVars,
                    ghostKeyVars, writes, key_ops, faults, kat >>

ReadLoopExit ==
    /\ pc = "read_loop"
    /\ ~(block_start <= block_end)
    /\ Return(NV_NO_ERROR)
    /\ UNCHANGED << keyVars, storeVars, call, out_data, raw_log, pre_nv,
                    mirrorVars, ghostKeyVars, writes, key_ops, faults, kat >>

\* One iteration of the read loop: raw read, decrypt, copy out,
\* block_start += 16.
ReadReadBlock ==
    /\ pc = "read_loop"
    /\ block_start <= block_end
    /\ \E r \in RawStatuses(block_start, 16) :
        /\ raw_log' = Logged(raw_log, [kind |-> "read", address |-> block_start,
                                       status |-> r])
        /\ faults' = IF r = NV_IO_ERROR THEN faults + 1 ELSE faults
        /\ IF ReadFailed(r)
           THEN Return(r) /\ UNCHANGED out_data
           ELSE LET tweak == BlockTweak(n, block_start)
                    decrypted == xexDecrypt(RawBlock(nv_mem, block_start), tweak, 1,
                                            nv_storage_tweak_key,
                                            nv_storage_encrypt_key)
                    copied == ReadCopyLoop(out_data, block_offset, decrypted,
                                           pos, length)
                IN  /\ n' = tweak
                    /\ ciphertext' = RawBlock(nv_mem, block_start)
                    /\ plaintext' = decrypted
                    /\ out_data' = copied.data
                    /\ length' = copied.length
                    /\ pos' = copied.pos
                    /\ block_offset' = ResetOffset(copied.block_offset)
                    /\ block_start' = NextBlock(block_start)
                    /\ UNCHANGED << pc, ret, block_end >>
    /\ UNCHANGED << keyVars, storeVars, call, pre_nv, mirrorVars, ghostKeyVars,
                    writes, key_ops, kat >>

\* ------------------------------------------------------------------------
\* Specification of the module under its callers
\* ------------------------------------------------------------------------

CallStep ==
    \/ ClearKeySecondLoop
    \/ WriteLoopExit
    \/ WriteReadBlock
    \/ WriteWriteBlock
    \/ ReadLoopExit
    \/ ReadReadBlock

Next ==
    \/ \E in \in TestKeys : SetKey(in)
    \/ GetKey
    \/ IsKeyNonZero
    \/ ClearKeyFirstLoop
    \/ \E a \in TestAddresses, len \in TestLengths :
          EncryptedWriteCall(writes, a, len)
    \/ \E a \in TestAddresses, len \in TestLengths : EncryptedReadCall(a, len)
    \/ CallStep

Spec == Init /\ [][Next]_vars

\* ------------------------------------------------------------------------
\* The doubler on its own: one value doubled over and over, as the loop of
\* xexEnDecrypt does seq times
\* ------------------------------------------------------------------------

One16 == [i \in Idx16 |-> IF i = 0 THEN 1 ELSE 0]
GfInputs == { Zero16, One16, FillKey(255),
              [i \in Idx16 |-> IF i = 15 THEN 128 ELSE 0],
              [i \in Idx16 |-> IF i = 15 THEN 127 ELSE 255],
              [i \in Idx16 |-> (13 * i + 128) % 256],
              [i \in Idx16 |-> 255 - 16 * i],
              [i \in Idx16 |-> 17 * i],
              [i \in Idx16 |-> IF i % 2 = 0 THEN 128 ELSE 1] }

InitGF ==
    /\ InitCommon
    /\ kat \in { [stage |-> "gf", start |-> v, prev |-> v, value |-> v,
                  count |-> 0] : v \in GfInputs }

\* doubleInGF(delta) once more.
GfDouble ==
    /\ kat.stage = "gf"
    /\ kat.count < MaxDoublings
    /\ kat' = [kat EXCEPT !.prev = kat.value,
                          !.value = doubleInGF(kat.value),
                          !.count = kat.count + 1]
    /\ UNCHANGED << keyVars, storeVars, pc, call, ret, out_data, localVars,
                    raw_log, pre_nv, mirrorVars, ghostKeyVars, writes, key_ops,
                    faults >>

NextGF == GfDouble

SpecGF == InitGF /\ [][NextGF]_vars

\* ------------------------------------------------------------------------
\* The XEX vector harness: one block encrypted, then decrypted again
\* ------------------------------------------------------------------------

KatKeys == { Zero16, [i \in Idx16 |-> (7 * i + 3) % 256], FillKey(255) }
KatTweaks == { Zero16, writeU32LittleEndian(Zero16, 16),
               [i \in Idx16 |-> 255 - 16 * i] }
KatBlocks == { Zero16, [i \in Idx16 |-> (13 * i + 128) % 256],
               [i \in Idx16 |-> IF i = 15 THEN 255 ELSE i] }

InitXex ==
    /\ InitCommon
    /\ kat \in [stage : { "loaded" }, n : KatTweaks, seq : 0 .. MaxSeq,
                tweak_key : KatKeys, encrypt_key : KatKeys,
                plaintext : KatBlocks, ciphertext : { Zero16 },
                compare : { Zero16 }]

KatEncrypt ==
    /\ kat.stage = "loaded"
    /\ kat' = [kat EXCEPT !.stage = "encrypted",
                          !.ciphertext = xexEncrypt(kat.plaintext, kat.n, kat.seq,
                                                    kat.tweak_key, kat.encrypt_key)]
    /\ UNCHANGED << keyVars, storeVars, pc, call, ret, out_data, localVars,
                    raw_log, pre_nv, mirrorVars, ghostKeyVars, writes, key_ops,
                    faults >>

KatDecrypt ==
    /\ kat.stage = "encrypted"
    /\ kat' = [kat EXCEPT !.stage = "decrypted",
                          !.compare = xexDecrypt(kat.ciphertext, kat.n, kat.seq,
                                                 kat.tweak_key, kat.encrypt_key)]
    /\ UNCHANGED << keyVars, storeVars, pc, call, ret, out_data, localVars,
                    raw_log, pre_nv, mirrorVars, ghostKeyVars, writes, key_ops,
                    faults >>

NextXex == KatEncrypt \/ KatDecrypt

SpecXex == InitXex /\ [][NextXex]_vars

\* ------------------------------------------------------------------------
\* Views used by the properties
\* ------------------------------------------------------------------------

\* Start addresses of the blocks of the store.
Blocks == { 16 * k : k \in 0 .. (nv_size \div 16) - 1 }
\* The plaintext of block b of a store under the installed key.
PlainBlock(mem, b) ==
    DecryptBlock(RawBlock(mem, b), b, nv_storage_tweak_key, nv_storage_encrypt_key)
\* The last call was an adapter call.
AdapterCall == call.op \in { "read", "write" }
\* The device reported no fault during the call.
NoFault == \A k \in 1 .. Len(raw_log) : raw_log[k].status # NV_IO_ERROR
\* The store decrypts to the mirror wherever the mirror was written.
StoreEqualsMirror ==
    \A b \in Blocks :
        LET p == PlainBlock(nv_mem, b)
        IN  \A i \in Idx16 :
                what_storage_should_be[b + i] # -1
                    => p[i] = what_storage_should_be[b + i]
\* The completed read returned the mirror's bytes over its range.
ReadEqualsMirror ==
    \A j \in 0 .. call.length - 1 :
        what_storage_should_be[call.address + j] # -1
            => out_data[j] = what_storage_should_be[call.address + j]
\* A read that the harness would check: completed, inside the store, with at
\* least one byte and no device fault.
CheckedRead ==
    /\ pc = "idle"
    /\ call.op = "read"
    /\ call.length >= 1
    /\ InBounds(call.address, call.length)
    /\ NoFault

\* ------------------------------------------------------------------------
\* Properties
\* ------------------------------------------------------------------------

\* C1: under the key the mirrored writes were made with, and as long as those
\* writes stayed inside the store and met no device fault, the store decrypts
\* to the mirror wherever the mirror was written, and every completed
\* in-bounds read of at least one byte succeeds and returns exactly the
\* mirror's bytes over its range.
C1_StoreAndReadsEqualMirror ==
    (pc = "idle" /\ mirror_ok /\ mirror_key = installed) =>
        /\ StoreEqualsMirror
        /\ CheckedRead => (ret = NV_NO_ERROR /\ ReadEqualsMirror)

\* C1 witness: after two writes, an unaligned read across two blocks has
\* returned bytes that were all written before.
C1_Witness ==
    /\ CheckedRead
    /\ mirror_ok /\ mirror_key = installed
    /\ writes = 2
    /\ call.address = 5 /\ call.length = 16
    /\ ret = NV_NO_ERROR
    /\ \A j \in 0 .. 15 : /\ what_storage_should_be[5 + j] # -1
                          /\ out_data[j] = what_storage_should_be[5 + j]
    /\ \E j \in 0 .. 15 : out_data[j] # TestData(0, 16)[j]

\* C2: at every point of an encrypted write, and after it, every byte of the
\* store outside [address, address + length) decrypts to what it decrypted to
\* when the call began.
C2_WriteLeavesOtherBytes ==
    call.op = "write" =>
        \A b \in Blocks :
            LET now == PlainBlock(nv_mem, b)
                before == PlainBlock(pre_nv, b)
            IN  \A i \in Idx16 :
                    ~(b + i >= call.address /\ b + i < call.address + call.length)
                        => now[i] = before[i]

\* C2 witness: a completed write that starts and ends inside blocks has
\* changed the ciphertext of both blocks it covers.
C2_Witness ==
    /\ pc = "idle" /\ call.op = "write" /\ ret = NV_NO_ERROR
    /\ call.address = 5 /\ call.length = 16
    /\ RawBlock(nv_mem, 0) # RawBlock(pre_nv, 0)
    /\ RawBlock(nv_mem, 16) # RawBlock(pre_nv, 16)

\* C3: in an adapter call, a raw operation that returned a status other than
\* success is the last raw operation of the call, the call has returned, and
\* it returned that status; a call that returned an error returned the status
\* of its last raw operation.
C3_FirstErrorAborts ==
    AdapterCall =>
        /\ \A k \in 1 .. Len(raw_log) :
              raw_log[k].status # NV_NO_ERROR
                  => (k = Len(raw_log) /\ pc = "idle" /\ ret = raw_log[k].status)
        /\ (pc = "idle" /\ ret # NV_NO_ERROR)
              => (Len(raw_log) > 0 /\ raw_log[Len(raw_log)].status = ret)

\* C3 witness: a write has returned the device's fault after it had already
\* rewritten a block.
C3_Witness ==
    /\ pc = "idle" /\ call.op = "write" /\ ret = NV_IO_ERROR
    /\ Len(raw_log) >= 3
    /\ raw_log[Len(raw_log)].status = NV_IO_ERROR
    /\ nv_mem # pre_nv

\* C4: a completed adapter call of at least one byte whose range runs past the
\* end of the address space or of the store has returned an error.
C4_OutOfRangeNotMasked ==
    (/\ pc = "idle" /\ AdapterCall /\ call.length >= 1
     /\ (\/ call.address + call.length > AddrSpace
         \/ call.address + call.length > nv_size))
        => ret # NV_NO_ERROR

\* C5: the raw operations of an encrypted write are read(b), write(b) for
\* blocks b in strictly increasing address order, and no block is read twice.
C5_BlocksInIncreasingOrder ==
    call.op = "write" =>
        /\ \A k \in 1 .. Len(raw_log) - 1 :
              IF raw_log[k].kind = "read"
              THEN /\ raw_log[k + 1].kind = "write"
                   /\ raw_log[k + 1].address = raw_log[k].address
              ELSE /\ raw_log[k + 1].kind = "read"
                   /\ raw_log[k + 1].address > raw_log[k].address
        /\ \A j, k \in 1 .. Len(raw_log) :
              (j < k /\ raw_log[j].kind = raw_log[k].kind)
                  => raw_log[j].address # raw_log[k].address

\* C6: decrypting what xexEncrypt made of a block, with the same n, seq and
\* keys, gives the block back.
C6_XexRoundTrip ==
    kat.stage = "decrypted" => kat.compare = kat.plaintext

\* C6 witness: a round trip with seq >= 1 and distinct keys, whose ciphertext
\* differs from the plaintext.
C6_Witness ==
    /\ kat.stage = "decrypted"
    /\ kat.seq >= 1
    /\ kat.tweak_key # kat.encrypt_key
    /\ kat.ciphertext # kat.plaintext
    /\ kat.compare = kat.plaintext

\* C7: reads and key calls leave the raw store as it was; and once another
\* key has been installed after the mirrored writes and the key of those
\* writes is installed again, the store decrypts to the mirror and a checked
\* read returns the mirror's bytes.
C7_KeyRestoreRecovers ==
    /\ (call.op \notin { "none", "write" }) => nv_mem = pre_nv
    /\ (pc = "idle" /\ mirror_ok /\ strayed /\ mirror_key = installed) =>
           /\ StoreEqualsMirror
           /\ CheckedRead => (ret = NV_NO_ERROR /\ ReadEqualsMirror)

\* C7 witness: written under the all-zero key, another key set, the key
\* cleared again, then a read that returned the written bytes.
C7_Witness ==
    /\ CheckedRead
    /\ mirror_ok /\ strayed /\ mirror_key = installed
    /\ key_ops = 2 /\ installed_by = "clear_key"
    /\ call.address = 5 /\ call.length = 16
    /\ ret = NV_NO_ERROR
    /\ \A j \in 0 .. 15 : /\ what_storage_should_be[5 + j] # -1
                          /\ out_data[j] = what_storage_should_be[5 + j]

\* C8: a completed adapter call of length 0 at an address inside the store,
\* with no device fault, has returned success, has left the decrypted store
\* as it was and has written nothing to the caller's buffer.
C8_ZeroLengthIsNoOp ==
    (/\ pc = "idle" /\ AdapterCall /\ call.length = 0
     /\ call.address < nv_size /\ NoFault)
        => /\ ret = NV_NO_ERROR
           /\ \A b \in Blocks : PlainBlock(nv_mem, b) = PlainBlock(pre_nv, b)
           /\ out_data = << >>

\* C9: the block loop of an adapter call performs finitely many iterations
\* and the call returns: the loop never comes back, with its condition still
\* true, to a block it has already handled in this call.  (Back at such a
\* block the loop is where it was before, block_end being the last block of
\* the address space, and it goes round for as long as the raw store
\* succeeds.)
C9_LoopNeverRevisitsBlock ==
    (pc \in { "write_loop", "read_loop" } /\ block_start <= block_end) =>
        \A k \in 1 .. Len(raw_log) : raw_log[k].address # block_start

\* C10: after set_key(in), with no set_key or clear_key since, the key state
\* holds in[0..15] as encrypt key and in[16..31] as tweak key, and get_key
\* writes out = in.
C10_GetKeyInvertsSetKey ==
    (pc = "idle" /\ installed_by = "set_key") =>
        /\ \A i \in Idx16 : /\ nv_storage_encrypt_key[i] = installed[i]
                            /\ nv_storage_tweak_key[i] = installed[i + 16]
        /\ call.op = "get_key" => out_data = installed

\* C10 witness: get_key after set_key of the blob whose byte 16 is 1.
C10_Witness ==
    /\ pc = "idle" /\ call.op = "get_key" /\ installed_by = "set_key"
    /\ installed = OneKeyTweak
    /\ out_data = OneKeyTweak

\* ------------------------------------------------------------------------
\* The doubler
\* ------------------------------------------------------------------------

\* C13 as stated: starting from 0x01 00 ... 00, fifteen doublings and then a
\* sixteenth give a value whose byte 0 is 0x87 and whose other fifteen bytes
\* are zero.
C13_SixteenDoublingsOfOne ==
    (kat.stage = "gf" /\ kat.start = One16 /\ kat.count = 16) =>
        kat.value = [i \in Idx16 |-> IF i = 0 THEN 135 ELSE 0]

\* C13, amended: starting from 0x01 00 ... 00, k doublings with k < 128 give
\* the value with bit k alone set (after sixteen: byte 2 is 0x01, the other
\* bytes are zero), and it is the 128th doubling, of the value whose only
\* set bit is bit 7 of byte 15, that gives byte 0 = 0x87 and the other
\* fifteen bytes zero.
C13_DoublingsOfOne ==
    (kat.stage = "gf" /\ kat.start = One16) =>
        /\ kat.count < 128 =>
                kat.value = [i \in Idx16 |-> IF i = kat.count \div 8
                                             THEN 2 ^ (kat.count % 8) ELSE 0]
        /\ kat.count = 128 =>
                kat.value = [i \in Idx16 |-> IF i = 0 THEN 135 ELSE 0]

C13_Witness ==
    /\ kat.stage = "gf" /\ kat.start = One16 /\ kat.count = 128
    /\ kat.value[0] = 135
    /\ kat.prev[15] = 128

\* Bit k of a 16-byte little-endian value.
Bit(v, k) == (v[k \div 8] \div (2 ^ (k % 8))) % 2
\* Bit k of 0x87.
ReductionBit(k) == IF k \in { 0, 1, 2, 7 } THEN 1 ELSE 0

\* C17: doubleInGF replaces the little-endian 128-bit value v by
\* ((v << 1) mod 2^128) xor (0x87 if bit 127 of v was set, else 0): bit k of
\* the result is bit k - 1 of v (the top bit of a byte goes to the low bit of
\* the next byte), xored with bit k of 0x87 exactly when bit 7 of byte 15 of
\* v was set; every byte stays a byte, and all-zero maps to all-zero.
C17_DoublerShiftsAndReduces ==
    (kat.stage = "gf" /\ kat.count >= 1) =>
        /\ \A i \in Idx16 : kat.value[i] \in Byte
        /\ \A k \in 0 .. 127 :
              Bit(kat.value, k) =
                  ((IF k = 0 THEN 0 ELSE Bit(kat.prev, k - 1))
                   + Bit(kat.prev, 127) * ReductionBit(k)) % 2
        /\ \A i \in 1 .. 15 :
              kat.value[i] % 2 = kat.prev[i - 1] \div 128
        /\ kat.value[0] =
              Xor8((kat.prev[0] * 2) % 256,
                   IF kat.prev[15] >= 128 THEN 135 ELSE 0)
        /\ kat.prev = Zero16 => kat.value = Zero16

\* A doubling that carried between bytes and reduced, and one of all-zero.
C17_Witness ==
    /\ kat.stage = "gf" /\ kat.count >= 1
    /\ kat.prev[15] >= 128
    /\ \E i \in 1 .. 15 : kat.prev[i - 1] >= 128 /\ kat.value[i] % 2 = 1
    /\ kat.value[0] % 2 = 1

\* ------------------------------------------------------------------------
\* The XEX construction
\* ------------------------------------------------------------------------

RECURSIVE TweakMask(_, _, _)
\* The mask: the primitive encryption of n under the tweak key, doubled seq
\* times (not at all when seq = 0).
TweakMask(tweak, seq, tweak_key) ==
    IF seq = 0 THEN aesEncrypt(tweak, aesExpandKey(tweak_key))
    ELSE doubleInGF(TweakMask(tweak, seq - 1, tweak_key))

\* C16: xexEncrypt outputs E_encrypt_key(P xor D) xor D and xexDecrypt
\* outputs D_encrypt_key(C xor D) xor D, where D is the primitive encryption
\* of n under tweak_key followed by exactly seq doublings; the tweak key
\* enters only D and the encrypt key only the data pass.
C16_XexFormula ==
    LET D == TweakMask(kat.n, kat.seq, kat.tweak_key)
        ek == aesExpandKey(kat.encrypt_key)
    IN  /\ kat.stage \in { "encrypted", "decrypted" } =>
              kat.ciphertext =
                  xor16Bytes(aesEncrypt(xor16Bytes(kat.plaintext, D), ek), D)
        /\ kat.stage = "decrypted" =>
              kat.compare =
                  xor16Bytes(aesDecrypt(xor16Bytes(kat.ciphertext, D), ek), D)

\* Both directions done with two different keys and a mask that was doubled.
C16_Witness ==
    /\ kat.stage = "decrypted"
    /\ kat.seq >= 2
    /\ kat.tweak_key # kat.encrypt_key
    /\ kat.n # Zero16
    /\ TweakMask(kat.n, kat.seq, kat.tweak_key)
          # TweakMask(kat.n, 0, kat.tweak_key)
    /\ kat.ciphertext # kat.plaintext

\* ------------------------------------------------------------------------
\* The key state manager
\* ------------------------------------------------------------------------

\* Some byte of the 32 key bytes is not zero.
SomeKeyByteNonZero ==
    \E i \in Idx16 : nv_storage_encrypt_key[i] # 0 \/ nv_storage_tweak_key[i] # 0

\* C11: after clear_key, from whatever key state, all 32 key bytes are 0x00
\* and is_key_nonzero returns false; a clear_key that follows a clear_key
\* leaves that same state (and neither touches the store).
C11_ClearKeyLeavesZeroKey ==
    /\ (pc = "idle" /\ installed_by = "clear_key") =>
           /\ nv_storage_encrypt_key = Zero16
           /\ nv_storage_tweak_key = Zero16
           /\ isEncryptionKeyNonZero(nv_storage_encrypt_key,
                                     nv_storage_tweak_key) = 0
           /\ call.op = "is_key_nonzero" => out_data = << 0 >>
    /\ (pc = "idle" /\ call.op = "clear_key") =>
           /\ installed_by = "clear_key"
           /\ installed = ZeroBlob
           /\ nv_mem = pre_nv

\* C11 witness: a clear_key has completed that began in the state the
\* clear_key before it had left.
C11_Witness ==
    /\ pc = "idle" /\ call.op = "clear_key" /\ call.after = "clear_key"
    /\ key_ops = 2
    /\ nv_storage_encrypt_key = Zero16 /\ nv_storage_tweak_key = Zero16

\* C12: is_key_nonzero returns a non-zero value exactly when one of the 32
\* bytes of the two keys is non-zero, in every key state the calls reach; it
\* returns true after set_key of the blob whose only non-zero byte is byte
\* 16 = 0x01.
C12_IsKeyNonZeroIffSomeByte ==
    /\ (isEncryptionKeyNonZero(nv_storage_encrypt_key, nv_storage_tweak_key) # 0)
           <=> SomeKeyByteNonZero
    /\ (pc = "idle" /\ call.op = "is_key_nonzero") =>
           /\ (out_data[1] # 0) <=> SomeKeyByteNonZero
           /\ (installed_by = "set_key" /\ installed = OneKeyTweak)
                  => out_data[1] # 0

\* C12 witness: is_key_nonzero has returned true for the key whose only
\* non-zero byte is byte 0 of the tweak key.
C12_Witness ==
    /\ pc = "idle" /\ call.op = "is_key_nonzero"
    /\ installed_by = "set_key" /\ installed = OneKeyTweak
    /\ nv_storage_encrypt_key = Zero16
    /\ out_data[1] # 0

\* ------------------------------------------------------------------------
\* The adapter's XEX calls
\* ------------------------------------------------------------------------

\* b as a 32-bit little-endian number in bytes 0..3, bytes 4..15 zero.
TweakBytes(b) ==
    [i \in Idx16 |-> IF i < 4 THEN (b \div (256 ^ i)) % 256 ELSE 0]
\* The last raw operation of the call, if it has issued one.
LastRaw == raw_log[Len(raw_log)]
\* Byte i of block b lies in the range of the call.
Covered(b, i) ==
    b + i >= call.address /\ b + i < call.address + call.length

\* C15: every XEX call of encrypted_write and encrypted_read for the block
\* at b is made with n = b as a 32-bit little-endian number in n[0..3] and
\* n[4..15] zero, seq = 1 and the installed tweak and encrypt keys, on every
\* iteration: what a write is about to raw-write, and what it has
\* raw-written, at b is the XEX encryption with tweak (b, 1) of its
\* plaintext, which is the decryption with tweak (b, 1) of the block read,
\* overlaid with the caller's bytes; what a read took from the block at b is
\* its XEX decryption with tweak (b, 1).
C15_TweakIsBlockAddress ==
    /\ pc = "write_raw" =>
           /\ n = TweakBytes(block_start)
           /\ ciphertext = xexEncrypt(plaintext, TweakBytes(block_start), 1,
                                      nv_storage_tweak_key,
                                      nv_storage_encrypt_key)
           /\ LET before == xexDecrypt(RawBlock(nv_mem, block_start),
                                       TweakBytes(block_start), 1,
                                       nv_storage_tweak_key,
                                       nv_storage_encrypt_key)
              IN  \A i \in Idx16 :
                      ~Covered(block_start, i) => plaintext[i] = before[i]
    /\ (pc = "write_loop" /\ Len(raw_log) > 0) =>
           /\ n = TweakBytes(LastRaw.address)
           /\ RawBlock(nv_mem, LastRaw.address) =
                  xexEncrypt(plaintext, TweakBytes(LastRaw.address), 1,
                             nv_storage_tweak_key, nv_storage_encrypt_key)
    /\ (pc = "read_loop" /\ Len(raw_log) > 0) =>
           /\ n = TweakBytes(LastRaw.address)
           /\ ciphertext = RawBlock(nv_mem, LastRaw.address)
           /\ plaintext = xexDecrypt(ciphertext, TweakBytes(LastRaw.address), 1,
                                     nv_storage_tweak_key,
                                     nv_storage_encrypt_key)

\* C15 witness: under a key with a non-zero tweak half, a write is in its
\* second iteration, about to raw-write block 16 with n = 16 00 00 ... 00.
C15_Witness ==
    /\ pc = "write_raw"
    /\ installed = OneKeyTweak /\ nv_storage_tweak_key # Zero16
    /\ block_start = 16 /\ call.address = 5
    /\ Len(raw_log) = 3
    /\ n[0] = 16 /\ \A i \in 1 .. 15 : n[i] = 0
    /\ ciphertext # RawBlock(nv_mem, 16)

\* ------------------------------------------------------------------------
\* Raw operations of a write
\* ------------------------------------------------------------------------

\* first_block and last_block of the call.
FirstBlock == BlockStart(call.address)
LastBlock == BlockStart(call.address + call.length - 1)
\* A raw operation that succeeded.
RawOk(kind, b) == [kind |-> kind, address |-> b, status |-> NV_NO_ERROR]

\* C18: a successful in-bounds encrypted_write of at least one byte has
\* issued exactly one raw read and then one raw write of 16 bytes at each of
\* first_block, first_block + 16, ..., last_block, in that order, and no
\* other raw operation (one read-modify-write when the range lies inside one
\* block); the ciphertext of every block outside that range is unchanged.
C18_ExactlyOneReadModifyWritePerBlock ==
    (/\ pc = "idle" /\ call.op = "write" /\ ret = NV_NO_ERROR
     /\ call.length >= 1 /\ InBounds(call.address, call.length)) =>
        LET count == ((LastBlock - FirstBlock) \div 16) + 1
        IN  /\ Len(raw_log) = 2 * count
            /\ \A k \in 1 .. count :
                  /\ raw_log[2 * k - 1] = RawOk("read", FirstBlock + 16 * (k - 1))
                  /\ raw_log[2 * k] = RawOk("write", FirstBlock + 16 * (k - 1))
            /\ \A b \in Blocks :
                  (b < FirstBlock \/ b > LastBlock)
                      => RawBlock(nv_mem, b) = RawBlock(pre_nv, b)

\* C18 witness: a write of 16 bytes at 5 has read and written blocks 0 and
\* 16 and nothing else, and block 32 holds what it held.
C18_Witness ==
    /\ pc = "idle" /\ call.op = "write" /\ ret = NV_NO_ERROR
    /\ call.address = 5 /\ call.length = 16
    /\ raw_log = << RawOk("read", 0), RawOk("write", 0),
                    RawOk("read", 16), RawOk("write", 16) >>
    /\ RawBlock(nv_mem, 0) # RawBlock(pre_nv, 0)
    /\ RawBlock(nv_mem, 32) = RawBlock(pre_nv, 32)

\* C19: when a raw operation has failed on block b during an encrypted
\* write, the progress made is a prefix: every block of the call below b was
\* read and rewritten and decrypts to the caller's bytes over the range of
\* the call, no block above b was raw-read or raw-written or has changed,
\* and the failed operation was issued once (no retry; the blocks below b
\* keep what was written, no rollback).
C19_PartialProgressIsPrefix ==
    (/\ pc = "idle" /\ call.op = "write" /\ ret # NV_NO_ERROR
     /\ Len(raw_log) > 0) =>
        LET b == LastRaw.address
        IN  /\ \A c \in Blocks :
                  (FirstBlock <= c /\ c < b) =>
                      /\ \E k \in 1 .. Len(raw_log) : raw_log[k] = RawOk("read", c)
                      /\ \E k \in 1 .. Len(raw_log) : raw_log[k] = RawOk("write", c)
                      /\ \A i \in Idx16 :
                            Covered(c, i) =>
                                PlainBlock(nv_mem, c)[i]
                                    = call.data[c + i - call.address]
            /\ \A k \in 1 .. Len(raw_log) : raw_log[k].address <= b
            /\ \A c \in Blocks :
                  c > b => RawBlock(nv_mem, c) = RawBlock(pre_nv, c)
            /\ \A k \in 1 .. Len(raw_log) - 1 :
                  ~(raw_log[k].address = b /\ raw_log[k].kind = LastRaw.kind)

\* ------------------------------------------------------------------------
\* Calls of length 0
\* ------------------------------------------------------------------------

\* Iterations the call began: each one begins with a raw read.
Iterations == Cardinality({ k \in 1 .. Len(raw_log) : raw_log[k].kind = "read" })
\* A completed adapter call of length 0.
ZeroLengthCall == pc = "idle" /\ AdapterCall /\ call.length = 0

\* C20 as stated: with length = 0 the block loop of encrypted_write and
\* encrypted_read performs exactly one iteration, for every address.
C20_ZeroLengthOneIteration ==
    ZeroLengthCall => Iterations = 1

\* C20, amended: with length = 0 the loop performs exactly one iteration, on
\* the block of the address, when the address is not a multiple of 16 (and
\* that block is not the last one of the address space); it performs no
\* iteration and the call returns success without a raw operation when the
\* address is a non-zero multiple of 16 (block_end is the block before
\* block_start); and at address 0, block_end being the last block of the
\* address space, it iterates over the blocks from 0 upwards until a raw
\* operation fails, which on a store smaller than the address space is the
\* read of the first block past its end.
C20_ZeroLengthIterations ==
    ZeroLengthCall =>
        /\ (call.address % 16 # 0 /\ FirstBlock # AddrSpace - 16) =>
               /\ Iterations = 1
               /\ Len(raw_log) <= 2
               /\ \A k \in 1 .. Len(raw_log) : raw_log[k].address = FirstBlock
        /\ (call.address % 16 = 0 /\ call.address # 0) =>
               /\ raw_log = << >>
               /\ ret = NV_NO_ERROR
        /\ call.address = 0 =>
               /\ ret # NV_NO_ERROR
               /\ (NoFault /\ nv_size < AddrSpace) =>
                      /\ Iterations = (nv_size \div 16) + 1
                      /\ raw_log[1].address = 0
                      /\ LastRaw = [kind |-> "read", address |-> nv_size,
                                    status |-> NV_INVALID_ADDRESS]

\* C20 witness: a write of length 0 at address 16 has returned success
\* without any raw operation.
C20_Witness ==
    /\ ZeroLengthCall /\ call.op = "write" /\ call.address = 16
    /\ raw_log = << >> /\ ret = NV_NO_ERROR
    /\ nv_mem = pre_nv

\* ------------------------------------------------------------------------
\* Reads under another key
\* ------------------------------------------------------------------------

\* Two key blobs that differ, and in one half only.
DiffersInOneHalf(k1, k2) ==
    /\ k1 # k2
    /\ \/ \A i \in 0 .. 15 : k1[i] = k2[i]
       \/ \A i \in 16 .. 31 : k1[i] = k2[i]
\* A checked read of whole blocks' worth of bytes that were all written
\* under key K1, made under a key that differs from K1 in one half only.
ReadUnderChangedKey ==
    /\ CheckedRead /\ ret = NV_NO_ERROR
    /\ call.length >= 16
    /\ mirror_ok /\ mirror_key # NoKey
    /\ DiffersInOneHalf(installed, mirror_key)
    /\ \A j \in 0 .. call.length - 1 :
          what_storage_should_be[call.address + j] # -1

C21_OnlySetAndClearChangeKey ==
    [][(call'.op \in { "write", "read", "get_key", "is_key_nonzero" })
           => UNCHANGED keyVars]_vars

\* C21 witness: under a set key, an out-of-range write has aborted with the
\* raw store's error after raw operations, and the key arrays still hold
\* the key that was set.
C21_Witness ==
    /\ pc = "idle" /\ call.op = "write" /\ ret = NV_INVALID_ADDRESS
    /\ Len(raw_log) >= 3
    /\ installed_by = "set_key" /\ installed = OneKeyTweak
    /\ getEncryptionKey(nv_storage_encrypt_key, nv_storage_tweak_key)
          = OneKeyTweak

\* Every byte of both key arrays is 0xff.
KeysAllFF ==
    /\ nv_storage_encrypt_key = [i \in Idx16 |-> 255]
    /\ nv_storage_tweak_key = [i \in Idx16 |-> 255]
\* A step that begins a clear_key leaves every key byte 0xff; a step that
\* ends one starts from that state and leaves every key byte 0x00.
ClearKeyStepsInOrder ==
    /\ (pc = "idle" /\ call'.op = "clear_key") =>
           (pc' = "clear_second_loop" /\ KeysAllFF')
    /\ (call'.op = "clear_key" /\ pc' = "idle") =>
           (/\ pc = "clear_second_loop"
            /\ KeysAllFF
            /\ nv_storage_encrypt_key' = Zero16
            /\ nv_storage_tweak_key' = Zero16)

\* C22: clear_key overwrites in two phases: its first step leaves all 16
\* bytes of encrypt_key and all 16 bytes of tweak_key at 0xff, the key
\* arrays hold that value for as long as the call is between its two loops,
\* a key byte is set to 0x00 only by the step that leaves this state, and
\* the call ends with all 32 bytes 0x00.
C22_ClearKeyTwoPhase ==
    /\ [](pc = "clear_second_loop" => (call.op = "clear_key" /\ KeysAllFF))
    /\ [][ClearKeyStepsInOrder]_vars

\* C22 witness: a clear_key of a set key is between its two loops, every
\* key byte 0xff.
C22_Witness ==
    /\ pc = "clear_second_loop" /\ call.op = "clear_key"
    /\ installed_by = "set_key" /\ installed = OneKeyEncrypt
    /\ \A i \in Idx16 : /\ nv_storage_encrypt_key[i] = 255
                          /\ nv_storage_tweak_key[i] = 255

====
